---------------------------- MODULE Spec2Model ----------------------------
(***************************************************************************)
(* Model of afx's self-update command (src/cmd/self-update.go).            *)
(*                                                                         *)
(* One run of the command is modelled: RunE dispatches on the hidden       *)
(* --select flag to selectTag (interactive mode) or to run (automatic      *)
(* mode).  Every blocking collaborator call (HTTP, prompt, download,       *)
(* unarchive, installer) is one step whose outcome is chosen               *)
(* nondeterministically among the outcomes the call can produce.           *)
(*                                                                         *)
(* Strings that the code parses or formats (version texts, annotation      *)
(* keys) are sequences of one-character strings, so that parsing and       *)
(* formatting are computed and are not the identity.                       *)
(***************************************************************************)
EXTENDS Integers, Sequences, FiniteSets, TLC

(***************************************************************************)
(* Bounds of the model.                                                    *)
(***************************************************************************)
\* version components range over 0..MaxNum
MaxNum == 1
\* at most this many entries in an annotation table
MaxAnnotations == 2
\* at most this many releases in the release list of the hosting service
MaxReleases == 2
\* at most this many assets of a release match the running platform
MaxAssets == 2

(***************************************************************************)
(* Text: sequences of characters.                                          *)
(***************************************************************************)
Digits == <<"0", "1", "2", "3", "4", "5", "6", "7", "8", "9">>

\* characters in ascending ASCII order (the ones the model's texts use)
Alphabet == Digits \o <<"a", "b", "c", "r">>

IsDigit(ch) == \E i \in 1..Len(Digits) : Digits[i] = ch

IsAlnum(ch) == \E i \in 1..Len(Alphabet) : Alphabet[i] = ch

DigitVal(ch) == (CHOOSE i \in 1..Len(Digits) : Digits[i] = ch) - 1

CharCode(ch) == CHOOSE i \in 1..Len(Alphabet) : Alphabet[i] = ch

IsNumeric(s) == Len(s) > 0 /\ \A i \in 1..Len(s) : IsDigit(s[i])

IsIdent(s) == Len(s) > 0 /\ \A i \in 1..Len(s) : IsAlnum(s[i])

RECURSIVE Atoi(_)
Atoi(s) == IF Len(s) = 0 THEN 0
           ELSE 10 * Atoi(SubSeq(s, 1, Len(s) - 1)) + DigitVal(s[Len(s)])

RECURSIVE Itoa(_)
Itoa(n) == IF n < 10 THEN <<Digits[n + 1]>>
           ELSE Itoa(n \div 10) \o <<Digits[(n % 10) + 1]>>

\* position of the first occurrence of ch in s, 0 when there is none
IndexOf(s, ch) == LET at == {i \in 1..Len(s) : s[i] = ch}
                  IN  IF at = {} THEN 0
                      ELSE CHOOSE i \in at : \A j \in at : i <= j

\* the pieces of s between occurrences of ch
RECURSIVE Split(_, _)
Split(s, ch) ==
    CHOOSE pieces \in
        {IF i = 0 THEN <<s>>
         ELSE <<SubSeq(s, 1, i - 1)>> \o Split(SubSeq(s, i + 1, Len(s)), ch) :
             i \in {IndexOf(s, ch)}} : TRUE

(***************************************************************************)
(* semver.Version (Masterminds/semver/v3), as used by the command:         *)
(* NewVersion/MustParse (lenient: optional leading "v", minor and patch    *)
(* optional), String (canonical form), Compare and the predicates on it.   *)
(***************************************************************************)
Invalid == [ok |-> FALSE, major |-> 0, minor |-> 0, patch |-> 0, pre |-> <<>>]

MkVersion(ma, mi, pa, pre) ==
    [ok |-> TRUE, major |-> ma, minor |-> mi, patch |-> pa, pre |-> pre]

NewVersion(text) ==
    LET body  == IF Len(text) > 0 /\ text[1] = "v" THEN Tail(text) ELSE text
        dash  == IndexOf(body, "-")
        core  == IF dash = 0 THEN body ELSE SubSeq(body, 1, dash - 1)
        pre   == IF dash = 0 THEN <<>> ELSE SubSeq(body, dash + 1, Len(body))
    IN  CHOOSE v \in
            {IF /\ Len(parts) \in 1..3
                /\ \A i \in 1..Len(parts) : IsNumeric(parts[i])
                /\ (dash # 0 => IsIdent(pre))
             THEN MkVersion(Atoi(parts[1]),
                            IF Len(parts) >= 2 THEN Atoi(parts[2]) ELSE 0,
                            IF Len(parts) >= 3 THEN Atoi(parts[3]) ELSE 0,
                            pre)
             ELSE Invalid : parts \in {Split(core, ".")}} : TRUE

\* Version.String(): always major.minor.patch[-pre], never the original text
String(v) ==
    Itoa(v.major) \o <<".">> \o Itoa(v.minor) \o <<".">> \o Itoa(v.patch)
        \o (IF Len(v.pre) = 0 THEN <<>> ELSE <<"-">> \o v.pre)

CompareInt(a, b) == IF a < b THEN -1 ELSE IF a > b THEN 1 ELSE 0

\* lexical (ASCII) comparison of two identifiers
RECURSIVE CompareText(_, _)
CompareText(s, t) ==
    IF Len(s) = 0 \/ Len(t) = 0 THEN CompareInt(Len(s), Len(t))
    ELSE IF s[1] # t[1] THEN CompareInt(CharCode(s[1]), CharCode(t[1]))
    ELSE CompareText(Tail(s), Tail(t))

\* the precedence without the case of two releases
ComparePrereleaseNoEqual(p, q) ==
    IF Len(p) = 0 THEN 1
    ELSE IF Len(q) = 0 THEN -1
    ELSE IF IsNumeric(p) /\ IsNumeric(q) THEN CompareInt(Atoi(p), Atoi(q))
    ELSE IF IsNumeric(p) THEN -1
    ELSE IF IsNumeric(q) THEN 1
    ELSE CompareText(p, q)

\* precedence of pre-release identifiers: a release is above any of its
\* pre-releases, numeric identifiers are below alphanumeric ones
ComparePrerelease(p, q) ==
    IF Len(p) = 0 /\ Len(q) = 0 THEN 0
    ELSE IF Len(p) = 0 THEN 1
    ELSE IF Len(q) = 0 THEN -1
    ELSE IF IsNumeric(p) /\ IsNumeric(q) THEN CompareInt(Atoi(p), Atoi(q))
    ELSE IF IsNumeric(p) THEN -1
    ELSE IF IsNumeric(q) THEN 1
    ELSE CompareText(p, q)

Compare(a, b) ==
    IF a.major # b.major THEN CompareInt(a.major, b.major)
    ELSE IF a.minor # b.minor THEN CompareInt(a.minor, b.minor)
    ELSE IF a.patch # b.patch THEN CompareInt(a.patch, b.patch)
    ELSE ComparePrerelease(a.pre, b.pre)

LessThan(a, b) == Compare(a, b) < 0

GreaterThan(a, b) == Compare(a, b) > 0

\* Release.LessOrEqual(other) of go-selfupdate, on a parsed other
LessOrEqual(a, b) == Compare(a, b) <= 0

(***************************************************************************)
(* Inputs of a run.                                                        *)
(***************************************************************************)
\* the build-time sentinel of a from-source build
Unset == <<"u", "n", "s", "e", "t">>

\* a version text that does not parse
Garbage == <<"a", "b", "c">>

Numbers == 0..MaxNum

ReleaseVersions == {MkVersion(a, b, c, <<>>) : a \in Numbers, b \in Numbers, c \in Numbers}

PreVersions == {MkVersion(a, b, c, <<"r", "c">>) : a \in Numbers, b \in Numbers, c \in Numbers}

AllVersions == ReleaseVersions \cup PreVersions

\* what the linker may have put into the Version variable
CurrentVersions == {Unset, Garbage} \cup {String(v) : v \in AllVersions}

\* permissions of the installed executable before the run
FileModes == {"0755", "0700"}

\* the table newSelfUpdateCmd builds
NoticeRefresh == <<"Run \"afx state refresh --force\" at first!">>

CodeAnnotation == [k \in {<<"0", ".", "1", ".", "1", "1">>} |-> NoticeRefresh]

\* map lookup: the zero value (empty string) for a missing key
Lookup(table, key) == IF key \in DOMAIN table THEN table[key] ELSE <<>>

(***************************************************************************)
(* State of a run.                                                         *)
(***************************************************************************)
VARIABLES
    Version,      \* the package variable Version (a text)
    tag,          \* c.opt.tag, the --select flag
    annotation,   \* c.annotation
    pc,           \* position of the run
    result,       \* "running", or what RunE returned: "nil", "error"; "panic"
    outcome,      \* which terminal outcome was reached
    exe,          \* the file at the path of the running executable
    original,     \* that file as it was when the run started
    yes,          \* the answer to the confirmation prompt
    latest,       \* the release DetectLatest returned
    detectCalls,  \* calls of selfupdate.DetectLatest
    listFetches,  \* GETs of the release list
    prompts,      \* prompts shown to the user
    downloads,    \* asset downloads started
    installs,     \* installer invocations (update.Apply started)
    failed,       \* collaborator calls of this run that returned an error
    out,          \* what the run printed, in order
    vs,           \* the sorted versions of the annotation keys
    idx,          \* position of the walk over vs
    messages,     \* the notices collected by the walk
    body,         \* the release list as read from the response
    tags,         \* the tag names offered to the user
    selected,     \* the tag the user selected ("" as <<>> when none)
    assets,       \* platform-matching assets of the selected release
    cmp           \* operands and results of the version comparisons under test

vars == <<Version, tag, annotation, pc, result, outcome, exe, original, yes, latest,
          detectCalls,
          listFetches, prompts, downloads, installs, failed, out, vs, idx,
          messages, body, tags, selected, assets, cmp>>

OrigExe(mode) == [bytes |-> "orig", mode |-> mode]

\* update.Apply creates the new file with Options.TargetMode, 0755 by default
NewExe == [bytes |-> "new", mode |-> "0755"]

\* no file at the target path
NoExe == [bytes |-> "none", mode |-> "none"]

\* no comparison under test
NoCmp == [a |-> Invalid, b |-> Invalid, c |-> Invalid, done |-> FALSE,
          aa |-> 0, ab |-> 0, ba |-> 0, bc |-> 0, ac |-> 0, le |-> FALSE, gt |-> FALSE]

InitRest ==
    /\ cmp = NoCmp
    /\ result = "running"
    /\ outcome = "none"
    /\ latest = Invalid
    /\ detectCalls = 0
    /\ listFetches = 0
    /\ prompts = 0
    /\ downloads = 0
    /\ installs = 0
    /\ failed = {}
    /\ out = <<>>
    /\ vs = <<>>
    /\ idx = 0
    /\ messages = <<>>
    /\ body = <<>>
    /\ tags = <<>>
    /\ selected = <<>>
    /\ assets = 0

Init ==
    /\ Version \in CurrentVersions
    /\ tag \in BOOLEAN
    /\ annotation = CodeAnnotation
    /\ exe \in {OrigExe(m) : m \in FileModes}
    /\ original = exe
    /\ yes = FALSE
    /\ pc = "RunE"
    /\ InitRest

\* return from RunE
Return(res, what) ==
    /\ pc' = "done"
    /\ result' = res
    /\ outcome' = what

(***************************************************************************)
(* RunE: meta.init, then the dispatch on --select; run starts with the     *)
(* switch on the sentinel, which involves no blocking call.                *)
(***************************************************************************)
\* a run that never takes the sentinel's case
IsSentinelNever(v) == FALSE

\* switch Version { case "unset": ... }
IsSentinel(v) == v = Unset

\* a dispatch that does not look at --select
DispatchAlwaysRun(select, v) == IF IsSentinel(v) THEN "UnsupportedBuild" ELSE "detect"

\* which of selectTag and run RunE calls, and whether run's switch lets it go on
Dispatch(select, v) ==
    IF select THEN "httpGet"
    ELSE IF IsSentinel(v) THEN "UnsupportedBuild"
    ELSE "detect"

RunE ==
    /\ pc = "RunE"
    /\ \E initErr \in BOOLEAN :
         IF initErr
         THEN /\ Return("error", "InitError")
              /\ failed' = failed \cup {"init"}
              /\ out' = out
         ELSE IF Dispatch(tag, Version) = "UnsupportedBuild"
         THEN /\ Return("error", "UnsupportedBuild")
              /\ out' = Append(out, "Failed to update to new version!")
              /\ failed' = failed
         ELSE /\ pc' = Dispatch(tag, Version)
              /\ UNCHANGED <<result, outcome, failed, out>>
    /\ UNCHANGED <<Version, tag, annotation, original, cmp, yes, exe, latest, detectCalls, listFetches,
                   prompts, downloads, installs, vs, idx, messages, body, tags,
                   selected, assets>>

(***************************************************************************)
(* run: automatic mode.                                                    *)
(***************************************************************************)
\* the checks after DetectLatest without the one of found
DetectBranchNoFound(err, found) == IF err THEN "NetworkError" ELSE "compare"

\* the two checks after selfupdate.DetectLatest
DetectBranch(err, found) ==
    IF err THEN "NetworkError"
    ELSE IF ~found THEN "NoCompatibleRelease"
    ELSE "compare"

\* LessThan in the place of LessOrEqual
UpToDateStrict(rel, cur) == LessThan(rel, cur)

\* latest.LessOrEqual(Version), for a Version that parses
UpToDate(rel, cur) == LessOrEqual(rel, cur)

DetectLatest ==
    /\ pc = "detect"
    /\ detectCalls' = detectCalls + 1
    /\ \E err \in BOOLEAN, found \in BOOLEAN, rel \in ReleaseVersions :
         LET branch == DetectBranch(err, found)
             cur    == NewVersion(Version)
         IN  /\ err => ~found
             /\ latest' = IF found THEN rel ELSE Invalid
             /\ failed' = IF err THEN failed \cup {"detect"} ELSE failed
             /\ IF branch # "compare"
                THEN Return("error", branch) /\ out' = out
                ELSE IF ~cur.ok
                THEN \* the library's parse of a Version that is no version
                     \* either panics or makes the comparison false
                     \E lib \in {"panic", "false"} :
                         /\ out' = out
                         /\ IF lib = "panic"
                            THEN Return("panic", "Panic")
                            ELSE pc' = "confirm" /\ UNCHANGED <<result, outcome>>
                ELSE IF UpToDate(rel, cur)
                THEN /\ out' = Append(out, "Current version is the latest")
                     /\ Return("nil", "UpToDate")
                ELSE /\ out' = out
                     /\ pc' = "confirm"
                     /\ UNCHANGED <<result, outcome>>
    /\ UNCHANGED <<Version, tag, annotation, original, cmp, yes, exe, listFetches, prompts, downloads,
                   installs, vs, idx, messages, body, tags, selected, assets>>

\* the checks after the confirmation without the one of yes
ConfirmBranchNoAnswer(err, answer) == IF err THEN "PromptError" ELSE "locate"

\* the two checks after survey.AskOne(&survey.Confirm{...}, &yes)
ConfirmBranch(err, answer) ==
    IF err THEN "PromptError"
    ELSE IF ~answer THEN "Declined"
    ELSE "locate"

Confirm ==
    /\ pc = "confirm"
    /\ prompts' = prompts + 1
    /\ \E err \in BOOLEAN, answer \in BOOLEAN :
         LET branch == ConfirmBranch(err, answer)
         IN  /\ err => ~answer
             /\ yes' = answer
             /\ failed' = IF err THEN failed \cup {"confirm"} ELSE failed
             /\ IF branch = "PromptError" THEN Return("error", branch)
                ELSE IF branch = "Declined" THEN Return("nil", branch)
                ELSE pc' = "locate" /\ UNCHANGED <<result, outcome>>
    /\ UNCHANGED <<Version, tag, annotation, original, cmp, exe, latest, detectCalls, listFetches,
                   downloads, installs, out, vs, idx, messages, body, tags,
                   selected, assets>>

\* exe, err := os.Executable()
Locate ==
    /\ pc = "locate"
    /\ \E err \in BOOLEAN :
         IF err
         THEN Return("error", "ExecutableError") /\ failed' = failed \cup {"executable"}
         ELSE pc' = "updateTo" /\ UNCHANGED <<result, outcome, failed>>
    /\ UNCHANGED <<Version, tag, annotation, original, cmp, yes, exe, latest, detectCalls, listFetches,
                   prompts, downloads, installs, out, vs, idx, messages, body, tags,
                   selected, assets>>

(***************************************************************************)
(* The installer.  selfupdate.UpdateTo downloads the asset, decompresses   *)
(* it and hands the binary to update.Apply; selectTag calls update.Apply   *)
(* itself.  Apply writes the new binary beside the target, renames the     *)
(* target away, renames the new file into place and, when that last rename *)
(* fails, renames the old file back; the command adds no step of its own   *)
(* around it.  Its outcomes:                                               *)
(*   "ok"        the new file is in place                                  *)
(*   "io"        failed before the target was renamed away                 *)
(*   "restored"  the last rename failed, the old file was renamed back     *)
(*   "rollback"  the last rename failed and so did renaming the old file   *)
(*               back: no file is left at the target path                  *)
(***************************************************************************)
ApplyOutcomes == {"ok", "io", "restored", "rollback"}

ApplyResult(file, o) ==
    IF o = "ok" THEN NewExe
    ELSE IF o = "rollback" THEN NoExe
    ELSE file

UpdateToOutcomes == {"download", "decompress"} \cup ApplyOutcomes

\* an error check that lets every outcome pass
UpdatedAlways(o) == TRUE

\* if err := selfupdate.UpdateTo(...); err != nil { return ... }
Updated(o) == o = "ok"

\* selfupdate.UpdateTo(latest.AssetURL, latest.AssetName, exe) and its error check
UpdateTo ==
    /\ pc = "updateTo"
    /\ downloads' = downloads + 1
    /\ \E o \in UpdateToOutcomes :
         /\ installs' = IF o \in ApplyOutcomes THEN installs + 1 ELSE installs
         /\ exe' = IF o \in ApplyOutcomes THEN ApplyResult(exe, o) ELSE exe
         /\ IF Updated(o)
            THEN /\ out' = Append(out, "Successfully updated to version")
                 /\ pc' = "sort"
                 /\ UNCHANGED <<result, outcome, failed>>
            ELSE /\ Return("error", "UpdateError")
                 /\ failed' = failed \cup {o}
                 /\ out' = out
    /\ UNCHANGED <<Version, tag, annotation, original, cmp, yes, latest, detectCalls, listFetches,
                   prompts, vs, idx, messages, body, tags, selected, assets>>

(***************************************************************************)
(* The upgrade notices, computed after a successful UpdateTo.              *)
(***************************************************************************)
\* sort.Sort(semver.Collection(vs)) over the parsed keys of the table
RECURSIVE SortedVersions(_)
SortedVersions(keys) ==
    IF keys = {} THEN <<>>
    ELSE CHOOSE s \in {<<NewVersion(k)>> \o SortedVersions(keys \ {k}) :
                          k \in {CHOOSE x \in keys :
                                     \A j \in keys : Compare(NewVersion(x), NewVersion(j)) <= 0}} : TRUE

\* for v := range c.annotation { vs = append(vs, semver.MustParse(v)) }; sort
SortAnnotations ==
    /\ pc = "sort"
    /\ IF \E k \in DOMAIN annotation : ~NewVersion(k).ok
       THEN /\ Return("panic", "Panic")
            /\ UNCHANGED <<vs, idx>>
       ELSE /\ vs' = SortedVersions(DOMAIN annotation)
            /\ idx' = 1
            /\ pc' = "walk"
            /\ UNCHANGED <<result, outcome>>
    /\ UNCHANGED <<Version, tag, annotation, original, cmp, yes, exe, latest, detectCalls, listFetches,
                   prompts, downloads, installs, failed, out, messages, body, tags,
                   selected, assets>>

\* if stop.LessThan(v) { break }
PastTarget(stop, v) == LessThan(stop, v)

\* if v.GreaterThan(start) { messages = append(...) }
Applies(v, start) == GreaterThan(v, start)

\* "- " + c.annotation[v.String()]
Message(table, v) == <<"-", " ">> \o Lookup(table, String(v))

\* the part after the loop: print the notices, return nil
Finish ==
    /\ out' = IF Len(messages) > 0 THEN Append(out, "To use this version:") ELSE out
    /\ Return("nil", "Installed")

\* a loop that does not advance
NextIdxStuck(i) == i

\* for _, v := range vs: the next element
NextIdx(i) == i + 1

\* one iteration of the loop over vs, or the end of the loop
Walk ==
    /\ pc = "walk"
    /\ IF idx > Len(vs)
       THEN Finish /\ UNCHANGED <<idx, messages>>
       ELSE LET v     == vs[idx]
                start == NewVersion(Version)
                stop  == NewVersion(String(latest))
            IN  IF ~start.ok
                THEN Return("panic", "Panic") /\ UNCHANGED <<idx, messages, out>>
                ELSE IF PastTarget(stop, v)
                THEN Finish /\ UNCHANGED <<idx, messages>>
                ELSE /\ messages' = IF Applies(v, start)
                                    THEN Append(messages, Message(annotation, v))
                                    ELSE messages
                     /\ idx' = NextIdx(idx)
                     /\ UNCHANGED <<pc, result, outcome, out>>
    /\ UNCHANGED <<Version, tag, annotation, original, cmp, yes, exe, latest, detectCalls, listFetches,
                   prompts, downloads, installs, failed, vs, body, tags, selected,
                   assets>>

(***************************************************************************)
(* selectTag: interactive mode.                                            *)
(***************************************************************************)
TagNames == {<<"v">> \o String(MkVersion(0, 1, 0, <<>>)),
             <<"v">> \o String(MkVersion(1, 0, 0, <<>>))}

\* one element of the release list: its tag_name and how many of its assets
\* are for the running platform
Releases == [tag_name : TagNames, matching : 0..MaxAssets]

ReleaseLists == UNION {[1..n -> Releases] : n \in 0..MaxReleases}

\* gjson.Get(body, "#.tag_name")
TagsOf(list) == [i \in 1..Len(list) |-> list[i].tag_name]

\* gjson.Get(body, "#(tag_name==\"<tag>\")").Get("assets"): the assets of the
\* first release with that tag, none when no release has it
AssetsOf(list, name) ==
    IF \E i \in 1..Len(list) : list[i].tag_name = name
    THEN list[CHOOSE i \in 1..Len(list) :
                  /\ list[i].tag_name = name
                  /\ \A j \in 1..(i - 1) : list[j].tag_name # name].matching
    ELSE 0

\* http.Get of the release list and ioutil.ReadAll of its body; the error of
\* ReadAll is dropped, body is then what had arrived
HttpGet ==
    /\ pc = "httpGet"
    /\ listFetches' = listFetches + 1
    /\ \E err \in BOOLEAN :
         IF err
         THEN /\ Return("error", "NetworkError")
              /\ failed' = failed \cup {"get"}
              /\ UNCHANGED <<body, tags>>
         ELSE \E arrived \in ReleaseLists, readErr \in BOOLEAN :
              /\ body' = arrived
              /\ tags' = TagsOf(arrived)
              /\ failed' = IF readErr THEN failed \cup {"read"} ELSE failed
              /\ pc' = "select"
              /\ UNCHANGED <<result, outcome>>
    /\ UNCHANGED <<Version, tag, annotation, original, cmp, yes, exe, latest, detectCalls, prompts,
                   downloads, installs, out, vs, idx, messages, selected, assets>>

\* what AskOne leaves in tag: the chosen option, or "" when it returned an
\* error (no options, or the user interrupted the prompt); the error is dropped
Chosen(options, choice) == IF choice = 0 THEN <<>> ELSE options[choice]

\* survey.AskOne(&survey.Select{Options: tags}, &tag, ...) and the lookup of
\* the chosen release's assets
Select ==
    /\ pc = "select"
    /\ prompts' = prompts + 1
    /\ \E choice \in 0..Len(tags) :
         /\ selected' = Chosen(tags, choice)
         /\ assets' = AssetsOf(body, selected')
         /\ failed' = IF choice = 0 THEN failed \cup {"select"} ELSE failed
    /\ pc' = "download"
    /\ UNCHANGED <<Version, tag, annotation, original, cmp, yes, result, outcome, exe, latest,
                   detectCalls, listFetches, downloads, installs, out, vs, idx,
                   messages, body, tags>>

\* release.Download(ctx): fails without fetching anything unless exactly one
\* asset is for the running platform
Download ==
    /\ pc = "download"
    /\ IF assets # 1
       THEN /\ Return("error", "DownloadError")
            /\ failed' = failed \cup {"download"}
            /\ UNCHANGED downloads
       ELSE /\ downloads' = downloads + 1
            /\ \E err \in BOOLEAN :
                 IF err
                 THEN Return("error", "DownloadError") /\ failed' = failed \cup {"download"}
                 ELSE pc' = "unarchive" /\ UNCHANGED <<result, outcome, failed>>
    /\ UNCHANGED <<Version, tag, annotation, original, cmp, yes, exe, latest, detectCalls, listFetches,
                   prompts, installs, out, vs, idx, messages, body, tags, selected,
                   assets>>

\* release.Unarchive(asset)
Unarchive ==
    /\ pc = "unarchive"
    /\ \E err \in BOOLEAN :
         IF err
         THEN Return("error", "UnarchiveError") /\ failed' = failed \cup {"unarchive"}
         ELSE pc' = "open" /\ UNCHANGED <<result, outcome, failed>>
    /\ UNCHANGED <<Version, tag, annotation, original, cmp, yes, exe, latest, detectCalls, listFetches,
                   prompts, downloads, installs, out, vs, idx, messages, body, tags,
                   selected, assets>>

\* os.Open of the unpacked binary, then os.Executable()
Open ==
    /\ pc = "open"
    /\ \E o \in {"ok", "open", "executable"} :
         IF o = "ok"
         THEN pc' = "apply" /\ UNCHANGED <<result, outcome, failed>>
         ELSE /\ Return("error", IF o = "open" THEN "OpenError" ELSE "ExecutableError")
              /\ failed' = failed \cup {o}
    /\ UNCHANGED <<Version, tag, annotation, original, cmp, yes, exe, latest, detectCalls, listFetches,
                   prompts, downloads, installs, out, vs, idx, messages, body, tags,
                   selected, assets>>

\* return update.Apply(fp, update.Options{TargetPath: exe})
Apply ==
    /\ pc = "apply"
    /\ installs' = installs + 1
    /\ \E o \in ApplyOutcomes :
         /\ exe' = ApplyResult(exe, o)
         /\ IF o = "ok"
            THEN Return("nil", "Installed") /\ failed' = failed
            ELSE Return("error", "UpdateError") /\ failed' = failed \cup {o}
    /\ UNCHANGED <<Version, tag, annotation, original, cmp, yes, latest, detectCalls, listFetches,
                   prompts, downloads, out, vs, idx, messages, body, tags, selected,
                   assets>>

(***************************************************************************)
(* The run as a whole.                                                     *)
(***************************************************************************)
Next ==
    \/ RunE
    \/ DetectLatest
    \/ Confirm
    \/ Locate
    \/ UpdateTo
    \/ SortAnnotations
    \/ Walk
    \/ HttpGet
    \/ Select
    \/ Download
    \/ Unarchive
    \/ Open
    \/ Apply

Spec == Init /\ [][Next]_vars

(***************************************************************************)
(* The notice computation over annotation tables other than the one the    *)
(* command is built with: the run is taken up where UpdateTo has just      *)
(* succeeded, for every table of at most MaxAnnotations entries.           *)
(***************************************************************************)
\* the ways the key of a version is written: canonical, with a leading "v",
\* and without the patch component when that is 0
KeyForms(v) ==
    {String(v), <<"v">> \o String(v)}
        \cup (IF v.patch = 0 THEN {Itoa(v.major) \o <<".">> \o Itoa(v.minor)} ELSE {})

Keys == UNION {KeyForms(v) : v \in ReleaseVersions} \cup {Garbage}

RECURSIVE KeySets(_)
KeySets(n) ==
    IF n = 0 THEN {{}}
    ELSE LET smaller == KeySets(n - 1)
         IN  smaller \cup {ks \cup {k} : ks \in smaller, k \in Keys}

\* the notice registered under a key: a text of its own for every key
NoticeFor(k) == <<"notice for ">> \o k

Tables == {[k \in ks |-> NoticeFor(k)] : ks \in KeySets(MaxAnnotations)}

InitNotices ==
    /\ Version \in CurrentVersions \ {Unset}
    /\ tag = FALSE
    /\ annotation \in Tables
    /\ latest \in ReleaseVersions
    /\ NewVersion(Version).ok => ~UpToDate(latest, NewVersion(Version))
    /\ original = OrigExe("0700")
    /\ exe = NewExe
    /\ yes = TRUE
    /\ pc = "sort"
    /\ result = "running"
    /\ outcome = "none"
    /\ detectCalls = 1
    /\ listFetches = 0
    /\ prompts = 1
    /\ downloads = 1
    /\ installs = 1
    /\ failed = {}
    /\ out = <<"Successfully updated to version">>
    /\ vs = <<>>
    /\ idx = 0
    /\ messages = <<>>
    /\ body = <<>>
    /\ tags = <<>>
    /\ selected = <<>>
    /\ assets = 0
    /\ cmp = NoCmp

NextNotices ==
    \/ SortAnnotations
    \/ Walk

SpecNotices == InitNotices /\ [][NextNotices]_vars

(***************************************************************************)
(* The version ordering by itself: the comparisons the command makes       *)
(* (LessOrEqual at the up-to-date check, LessThan and GreaterThan in the   *)
(* walk), applied to three versions.                                       *)
(***************************************************************************)
CmpPres == {<<>>, <<"1">>, <<"2">>, <<"r">>, <<"r", "c">>}

CmpVersions == {MkVersion(a, b, c, p) : a \in Numbers, b \in 0..1, c \in 0..1, p \in CmpPres}

InitCompare ==
    /\ \E a \in CmpVersions, b \in CmpVersions, c \in CmpVersions :
         cmp = [NoCmp EXCEPT !.a = a, !.b = b, !.c = c]
    /\ Version = String(cmp.a)
    /\ tag = FALSE
    /\ annotation = CodeAnnotation
    /\ exe = OrigExe("0755")
    /\ original = exe
    /\ yes = FALSE
    /\ pc = "comparator"
    /\ result = "running"
    /\ outcome = "none"
    /\ latest = Invalid
    /\ detectCalls = 0
    /\ listFetches = 0
    /\ prompts = 0
    /\ downloads = 0
    /\ installs = 0
    /\ failed = {}
    /\ out = <<>>
    /\ vs = <<>>
    /\ idx = 0
    /\ messages = <<>>
    /\ body = <<>>
    /\ tags = <<>>
    /\ selected = <<>>
    /\ assets = 0

CompareVersions ==
    /\ pc = "comparator"
    /\ ~cmp.done
    /\ cmp' = [cmp EXCEPT !.done = TRUE,
                          !.aa = Compare(cmp.a, cmp.a),
                          !.ab = Compare(cmp.a, cmp.b),
                          !.ba = Compare(cmp.b, cmp.a),
                          !.bc = Compare(cmp.b, cmp.c),
                          !.ac = Compare(cmp.a, cmp.c),
                          !.le = LessOrEqual(cmp.a, cmp.b),
                          !.gt = GreaterThan(cmp.a, cmp.b)]
    /\ UNCHANGED <<Version, tag, annotation, pc, result, outcome, exe, original, yes,
                   latest, detectCalls, listFetches, prompts, downloads, installs,
                   failed, out, vs, idx, messages, body, tags, selected, assets>>

NextCompare == CompareVersions

SpecCompare == InitCompare /\ [][NextCompare]_vars

(***************************************************************************)
(* Termination.  A run is one sequence of blocking steps in one goroutine: *)
(* when every collaborator call returns, the step that is enabled is       *)
(* taken, which is weak fairness of Next.  Besides the runs of Spec, the   *)
(* walk is run over tables of up to MaxAnnotations entries.                *)
(***************************************************************************)
\* the current versions of these runs: the sentinel, an unparseable text and
\* one release per major number
FairVersions == {Unset, Garbage} \cup {String(MkVersion(a, 0, 0, <<>>)) : a \in Numbers}

WalkKeys == FairVersions \ {Unset}

WalkTables == {t \in Tables : DOMAIN t \subseteq WalkKeys}

InitWalk ==
    /\ annotation \in WalkTables
    /\ Version \in FairVersions
    /\ InitNotices

InitFair ==
    \/ Version \in FairVersions /\ Init
    \/ InitWalk

FairSpec == InitFair /\ [][Next]_vars /\ WF_vars(Next)

(***************************************************************************)
(* Properties.                                                             *)
(***************************************************************************)
\* the file at the target path is the one the run found there
Untouched == exe = original

NothingFetched == detectCalls = 0 /\ listFetches = 0 /\ downloads = 0

\* C1: in automatic mode with the sentinel "unset" as current version, no
\* network call (DetectLatest, release list, asset download) and no install
\* happens at any point of the run, and the run, once run() is entered, ends
\* at once with the UnsupportedBuild error.
C1_UnsetRefusedBeforeNetwork ==
    (~tag /\ Version = Unset) =>
        /\ NothingFetched
        /\ installs = 0
        /\ prompts = 0
        /\ Untouched
        /\ pc \in {"RunE", "done"}
        /\ (pc = "done" /\ "init" \notin failed) =>
               (result = "error" /\ outcome = "UnsupportedBuild")

C1_Witness ==
    /\ ~tag
    /\ Version = Unset
    /\ pc = "done"
    /\ outcome = "UnsupportedBuild"

\* C2: whenever a run (of either mode) has ended with an error, the file at
\* the target path is the original executable, bytes and permissions.
C2_FailureLeavesOriginal ==
    (NewVersion(Version).ok /\ pc = "done" /\ result = "error") => Untouched

\* C3: in every state the target path holds either exactly the original
\* bytes or exactly the new bytes, and after a successful install it holds
\* the new bytes.
C3_OldOrNew ==
    NewVersion(Version).ok =>
        /\ exe.bytes \in {"orig", "new"}
        /\ (outcome = "Installed" => exe.bytes = "new")

\* C4: in automatic mode, when the detected latest version is less than or
\* equal to the (parseable) current version, the run has ended with success
\* in the "up to date" state, without prompt, download or install, and the
\* executable is unchanged.
C4_UpToDateIsNoOp ==
    (/\ ~tag
     /\ latest.ok
     /\ NewVersion(Version).ok
     /\ Compare(latest, NewVersion(Version)) <= 0)
    => /\ pc = "done"
       /\ result = "nil"
       /\ outcome = "UpToDate"
       /\ prompts = 0
       /\ downloads = 0
       /\ installs = 0
       /\ Untouched

\* the equal case
C4_Witness ==
    /\ ~tag
    /\ latest.ok
    /\ latest = NewVersion(Version)
    /\ outcome = "UpToDate"

\* C5: in automatic mode, when DetectLatest returned found=false without an
\* error, the run has ended with the NoCompatibleRelease error and neither
\* the prompt nor the installer was reached.
C5_NotFoundIsError ==
    (~tag /\ detectCalls = 1 /\ "detect" \notin failed /\ ~latest.ok)
    => /\ pc = "done"
       /\ result = "error"
       /\ outcome = "NoCompatibleRelease"
       /\ prompts = 0
       /\ downloads = 0
       /\ installs = 0
       /\ Untouched

C5_Witness ==
    /\ ~tag
    /\ detectCalls = 1
    /\ "detect" \notin failed
    /\ ~latest.ok
    /\ outcome = "NoCompatibleRelease"

\* C6: in automatic mode, when the user answered the confirmation with no,
\* the run has ended with success in the Declined state; nothing was
\* downloaded, the installer was not invoked, the executable is unchanged.
C6_DeclinedIsNoOp ==
    (~tag /\ prompts = 1 /\ "confirm" \notin failed /\ ~yes)
    => /\ pc = "done"
       /\ result = "nil"
       /\ outcome = "Declined"
       /\ downloads = 0
       /\ installs = 0
       /\ Untouched

C6_Witness ==
    /\ ~tag
    /\ prompts = 1
    /\ "confirm" \notin failed
    /\ ~yes
    /\ outcome = "Declined"

\* C7: in interactive mode, when the user cancelled the selection among the
\* offered tags, the run has ended with success (the no-op outcome), with
\* nothing downloaded, the installer not invoked and the executable untouched.
C7_CancelIsNoOp ==
    (tag /\ Len(tags) > 0 /\ "select" \in failed)
    => /\ pc = "done"
       /\ result = "nil"
       /\ downloads = 0
       /\ installs = 0
       /\ Untouched

\* C9: a run returns success only in the terminal states "up to date",
\* "declined" and "installed", and never when one of its steps failed.
C9_SuccessMeansNoFailure ==
    (NewVersion(Version).ok /\ pc = "done" /\ result = "nil")
    => /\ outcome \in {"UpToDate", "Declined", "Installed"}
       /\ failed = {}

\* C10: with the sentinel "unset" as current version, interactive mode too
\* fetches no release list, downloads nothing and does not install.
C10_UnsetRefusedInteractive ==
    (tag /\ Version = Unset) =>
        /\ listFetches = 0
        /\ downloads = 0
        /\ installs = 0

\* the keys of the table whose version v satisfies current < v <= latest
KeysInRange ==
    {k \in DOMAIN annotation :
        /\ Compare(NewVersion(k), NewVersion(Version)) > 0
        /\ Compare(NewVersion(k), latest) <= 0}

\* C8: for a table whose keys all parse, the notices of a successful update
\* are exactly the annotations with current < v <= latest, each once, in
\* ascending order of version.
C8_NoticesAreTheRange ==
    (/\ ~tag
     /\ outcome = "Installed"
     /\ NewVersion(Version).ok
     /\ \A k \in DOMAIN annotation : NewVersion(k).ok)
    => /\ Len(messages) = Cardinality(KeysInRange)
       /\ \E f \in [1..Len(messages) -> KeysInRange] :
            /\ \A i, j \in 1..Len(messages) : i # j => f[i] # f[j]
            /\ \A i \in 1..Len(messages) : messages[i] = <<"-", " ">> \o annotation[f[i]]
            /\ \A i, j \in 1..Len(messages) :
                 i < j => Compare(NewVersion(f[i]), NewVersion(f[j])) <= 0

\* C11: a key of the table that does not parse is discarded: the run, whose
\* install has succeeded, still ends with success, and the notices are the
\* ones of the keys that parse and lie in (current, latest].
C11_BadKeyIsDiscarded ==
    (/\ ~tag
     /\ pc = "done"
     /\ installs = 1
     /\ exe = NewExe
     /\ NewVersion(Version).ok
     /\ \E k \in DOMAIN annotation : ~NewVersion(k).ok)
    => /\ result = "nil"
       /\ outcome = "Installed"
       /\ Len(messages) =
              Cardinality({k \in KeysInRange : NewVersion(k).ok})

\* C19: every key that parses and is selected for output (its version lies
\* in (current, latest]) has the text registered under it among the rendered
\* notices.
C19_NoticeIsTheRegisteredText ==
    (/\ ~tag
     /\ outcome = "Installed"
     /\ NewVersion(Version).ok
     /\ \A k \in DOMAIN annotation : NewVersion(k).ok)
    => \A k \in KeysInRange :
           \E i \in 1..Len(messages) : messages[i] = <<"-", " ">> \o annotation[k]

\* C12: the version ordering is a total order: compare(a,a) is equal,
\* compare(a,b) is less exactly when compare(b,a) is greater (and equal
\* exactly when compare(b,a) is equal), a <= b and b <= c give a <= c, and
\* lessOrEqual and greaterThan are complements of each other.
C12_TotalOrder ==
    cmp.done =>
        /\ cmp.aa = 0
        /\ cmp.ab \in {-1, 0, 1}
        /\ (cmp.ab < 0 <=> cmp.ba > 0)
        /\ (cmp.ab = 0 <=> cmp.ba = 0)
        /\ ((cmp.ab <= 0 /\ cmp.bc <= 0) => cmp.ac <= 0)
        /\ (cmp.le <=> ~cmp.gt)

\* three versions that differ in the pre-release only, in ascending order
C12_Witness ==
    /\ cmp.done
    /\ cmp.a.major = cmp.c.major /\ cmp.a.minor = cmp.c.minor /\ cmp.a.patch = cmp.c.patch
    /\ cmp.ab < 0
    /\ cmp.bc < 0
    /\ cmp.ac < 0
    /\ cmp.le

\* C13: in automatic mode the asset download and the installer are reached
\* only after, in this order, the sentinel check passed, DetectLatest returned
\* a release without error, that release was found strictly greater than the
\* current version (where the current version parses), and the user confirmed
\* with yes; the prompt is reached only after the detection; each of these
\* steps happens once.
C13_InstallOnlyAfterConfirmedUpdate ==
    ~tag =>
        /\ (prompts > 0 \/ pc = "confirm") =>
               /\ Version # Unset
               /\ detectCalls = 1
               /\ "detect" \notin failed
               /\ latest.ok
               /\ NewVersion(Version).ok => Compare(latest, NewVersion(Version)) > 0
        /\ (downloads > 0 \/ installs > 0 \/ pc \in {"locate", "updateTo", "sort", "walk"}) =>
               /\ prompts = 1
               /\ "confirm" \notin failed
               /\ yes
        /\ installs > 0 => downloads = 1
        /\ detectCalls <= 1 /\ prompts <= 1 /\ downloads <= 1 /\ installs <= 1
        /\ listFetches = 0

C13_Witness ==
    /\ ~tag
    /\ NewVersion(Version).ok
    /\ installs = 1
    /\ outcome = "Installed"

\* the run printed this line
Printed(line) == \E i \in 1..Len(out) : out[i] = line

\* C14: notices are computed and rendered only after the install step of the
\* run has succeeded; a run whose UpdateTo failed returns an error and prints
\* neither the success message nor a notice; in the UpToDate and Declined
\* states no notice is rendered.
C14_NoticesOnlyAfterInstall ==
    ~tag =>
        /\ (\/ Printed("Successfully updated to version")
            \/ Printed("To use this version:")
            \/ Len(messages) > 0
            \/ pc \in {"sort", "walk"})
           => (installs = 1 /\ exe = NewExe /\ failed = {})
        /\ Printed("To use this version:") => Printed("Successfully updated to version")
        /\ (pc = "done" /\ failed \cap UpdateToOutcomes # {})
           => /\ result = "error"
              /\ ~Printed("Successfully updated to version")
              /\ ~Printed("To use this version:")
              /\ messages = <<>>
        /\ outcome \in {"UpToDate", "Declined"}
           => (messages = <<>> /\ ~Printed("To use this version:"))

\* a run that rendered a notice
C14_Witness ==
    /\ ~tag
    /\ outcome = "Installed"
    /\ Len(messages) > 0
    /\ Printed("To use this version:")

\* C15: when DetectLatest or the fetch of the release list (the GET or the
\* read of its body) fails, the run has ended with that error, after one
\* attempt, and neither a prompt nor the installer was reached.
C15_NetworkErrorEndsRun ==
    (failed \cap {"detect", "get", "read"} # {})
    => /\ pc = "done"
       /\ result = "error"
       /\ outcome = "NetworkError"
       /\ detectCalls + listFetches = 1
       /\ prompts = 0
       /\ downloads = 0
       /\ installs = 0

\* C16, as stated: in interactive mode every run in which the download and
\* the unarchive of the selected release succeeded has invoked the installer.
C16_InstallAfterUnarchive ==
    (/\ tag
     /\ pc = "done"
     /\ downloads = 1
     /\ failed \cap {"download", "unarchive"} = {})
    => installs = 1

\* C16, amended: interactive mode makes no version comparison and renders no
\* notice, and every run in which download, unarchive, the open of the
\* unpacked binary and os.Executable succeeded has invoked the installer,
\* whatever the order of the selected release and the current version.
C16_InteractiveNoCheckNoNotice ==
    tag =>
        /\ detectCalls = 0
        /\ ~latest.ok
        /\ outcome # "UpToDate"
        /\ vs = <<>>
        /\ messages = <<>>
        /\ out = <<>>
        /\ (/\ pc = "done"
            /\ downloads = 1
            /\ failed \cap {"download", "unarchive", "open", "executable"} = {})
           => installs = 1

\* the selected release is the current version, and it was installed
C16_Witness ==
    /\ tag
    /\ NewVersion(Version).ok
    /\ NewVersion(selected) = NewVersion(Version)
    /\ installs = 1
    /\ outcome = "Installed"

\* C17: in automatic mode, when the current version is not the sentinel and
\* does not parse, the run has ended with an error once a release has been
\* detected, and neither the prompt nor the installer was reached.
C17_InvalidVersionIsError ==
    (/\ ~tag
     /\ Version # Unset
     /\ ~NewVersion(Version).ok
     /\ latest.ok)
    => /\ pc = "done"
       /\ result = "error"
       /\ prompts = 0
       /\ downloads = 0
       /\ installs = 0

\* the outcomes a run ends in
TerminalOutcomes ==
    {"UnsupportedBuild", "UpToDate", "Declined", "Installed",
     "InitError", "NetworkError", "NoCompatibleRelease", "PromptError",
     "ExecutableError", "UpdateError", "DownloadError", "UnarchiveError",
     "OpenError", "Panic"}

\* C18: when every collaborator call returns, every run of either mode
\* eventually is in one terminal state and stays in it, taking no further
\* step; in particular the walk over a finite table ends.
C18_Terminates ==
    /\ <>[](pc = "done" /\ result # "running" /\ outcome \in TerminalOutcomes)
    /\ [][pc = "done" => (pc' = "done" /\ result' = result /\ outcome' = outcome)]_vars

\* a walk over a table of two entries that went to its end
C18_Witness ==
    /\ pc = "done"
    /\ outcome = "Installed"
    /\ Len(vs) >= 2
    /\ idx > Len(vs)

=============================================================================
